---- MODULE Spec2Model ----
(***************************************************************************)
(* tools/dmg_wave_crc.py: reconstruction of 16-byte wave RAM dumps from    *)
(* the emulator's debug log, and the CRC32 report over them.               *)
(*                                                                         *)
(* A log line is a sequence of tokens.  A token is a record [k, hex]:      *)
(*   k = "marker"  the text "apu.ch3 wave read"                            *)
(*   k = "addr"    the text "addr=0x" followed by 4 hex digits (hex)       *)
(*   k = "result"  the text "result=0x" followed by 2 hex digits (hex)     *)
(*   k = "text"    any other text                                          *)
(* A hex digit is its value 0..15.                                         *)
(***************************************************************************)
EXTENDS Integers, Sequences, FiniteSets, TLC

VARIABLES
    pc,             \* position of main: build, run_emulator, collect, main_check, exit
    log_segs,       \* the emulator's output, as the names of its segments
    pos,            \* index of the line the for loop of collect_wave_dumps reads next
    dumps,          \* collect_wave_dumps: dumps
    current,        \* collect_wave_dumps: current
    expected_addr,  \* collect_wave_dumps: expected_addr
    current_src,    \* history: the line index each byte of current came from
    dump_src,       \* history: for each dump, the line index of each of its bytes
    stdout,         \* lines printed on standard output
    stderr,         \* lines printed on standard error
    exit_status     \* -1 while running, else the process's exit status

vars == <<pc, log_segs, pos, dumps, current, expected_addr, current_src,
          dump_src, stdout, stderr, exit_status>>

----------------------------------------------------------------------------
(* Program constants *)

WAVE_ADDR_START == 65328

WAVE_ADDR_END == 65343

----------------------------------------------------------------------------
(* Bounds of the model *)

\* the emulator's log is made of at most MaxSegs segments of Segments
MaxSegs == 3

----------------------------------------------------------------------------
(* Hexadecimal text *)

RECURSIVE HexToInt(_)
\* int(s, 16) of a sequence of hex digits
HexToInt(h) ==
    IF h = <<>> THEN 0
    ELSE 16 * HexToInt(SubSeq(h, 1, Len(h) - 1)) + h[Len(h)]

\* the n-digit hexadecimal text of v, most significant digit first
IntToHex(v, n) ==
    [i \in 1..n |-> (v \div (16 ^ (n - i))) % 16]

----------------------------------------------------------------------------
(* The trace line matcher *)

None == [matched |-> FALSE, addr |-> <<>>, result |-> <<>>]

\* the positions of line holding a token of kind k
Positions(line, k) == {i \in 1..Len(line) : line[i].k = k}

Max(S) == CHOOSE m \in S : \A x \in S : x <= m

Min(S) == CHOOSE m \in S : \A x \in S : m <= x

\* WaveReadSearch with lazy .*? in place of the greedy .*: the first addr
\* field after the marker and the first result field after it
WaveReadSearchFirst(line) ==
    LET markers == Positions(line, "marker")
        m       == Min(markers)
        addrs   == {a \in Positions(line, "addr") : a > m}
        a       == Min(addrs)
        results == {x \in Positions(line, "result") : x > a}
    IN  IF markers = {} THEN None
        ELSE IF addrs = {} THEN None
        ELSE IF results = {} THEN None
        ELSE [matched |-> TRUE, addr |-> line[a].hex,
              result |-> line[Min(results)].hex]

\* WAVE_READ_RE.search(line): the leftmost marker starts the match; each
\* greedy .* runs as far right as leaves the rest of the pattern a match, so
\* group 1 is the last addr field that has a result field after it and
\* group 2 the last result field of the line.
WaveReadSearch(line) ==
    LET markers == Positions(line, "marker")
        m       == Min(markers)
        addrs   == {a \in Positions(line, "addr") :
                       /\ a > m
                       /\ \E r \in Positions(line, "result") : r > a}
        a       == Max(addrs)
        r       == Max({x \in Positions(line, "result") : x > a})
    IN  IF markers = {} THEN None
        ELSE IF addrs = {} THEN None
        ELSE [matched |-> TRUE, addr |-> line[a].hex, result |-> line[r].hex]

----------------------------------------------------------------------------
(* The emulator's log *)

Marker == [k |-> "marker", hex |-> <<>>]

Text == [k |-> "text", hex |-> <<>>]

AddrField(a) == [k |-> "addr", hex |-> IntToHex(a, 4)]

ResultField(v) == [k |-> "result", hex |-> IntToHex(v, 2)]

\* the byte the i-th line of a log reports: different on different lines
ByteAt(i) == (i * 17 + 3) % 256

\* a line kind is NoRead, or the address the line reports a read of: alone,
\* or with the number of the line's shape (see LineOf) in the digits above
\* the address's sixteen bits
NoRead == 0 - 1

KindOf(shape, addr) == shape * (2 ^ 16) + addr

ShapeOf(kind) == kind \div (2 ^ 16)

AddrOf(kind) == kind % (2 ^ 16)

\* another address of the window than addr, for the fields of a line that
\* the matcher does not take
Decoy(addr) == WAVE_ADDR_START + ((addr + 5) % 16)

\* addresses WAVE_ADDR_START + a, ..., WAVE_ADDR_START + a + k - 1
Stretch(a, k) == [i \in 1..k |-> WAVE_ADDR_START + a + i - 1]

\* lines that are no in-window read: one that is no wave read, a read just
\* above the window and a read just below it
Noise == <<NoRead, WAVE_ADDR_END + 1, WAVE_ADDR_START - 1>>

\* a cycle of reads on lines with several fields (shapes 1 to 5 and the
\* plain shape 0 in turn), and in its middle three lines that have fields
\* of the expected address but are no read (shapes 6 to 8)
MixedCycle ==
    [j \in 1..8 |-> KindOf(j % 6, WAVE_ADDR_START + j - 1)]
    \o [j \in 1..3 |-> KindOf(j + 5, WAVE_ADDR_START + 8)]
    \o [j \in 1..8 |-> KindOf((j + 8) % 6, WAVE_ADDR_START + j + 7)]

\* the segments a log is made of, by name
Segment(name) ==
    CASE name = "cycle"       -> Stretch(0, 16)
      [] name = "mixed_cycle" -> MixedCycle
      [] name = "noisy_cycle" -> Stretch(0, 8) \o Noise \o Stretch(8, 8)
      [] name = "first_half"  -> Stretch(0, 8)
      [] name = "second_half" -> Stretch(8, 8)
      [] name = "short_cycle" -> Stretch(0, 15)     \* all but the last address
      [] name = "end"         -> Stretch(15, 1)     \* WAVE_ADDR_END alone
      [] name = "middle"      -> Stretch(7, 1)      \* an address inside the window
      [] name = "start"       -> Stretch(0, 1)      \* WAVE_ADDR_START alone
      [] name = "noise"       -> Noise

SegmentNames ==
    {"cycle", "mixed_cycle", "noisy_cycle", "first_half", "second_half",
     "short_cycle", "end", "middle", "start", "noise"}

RECURSIVE Flatten(_)
\* the line kinds of a sequence of segment names
Flatten(segs) ==
    IF segs = <<>> THEN <<>> ELSE Segment(Head(segs)) \o Flatten(Tail(segs))

\* line i of a log, of the given kind.  a and v are the address and the
\* byte the line reports when it is a read; d and w stand in the fields the
\* matcher passes over.
LineOf(kind, i) ==
    IF kind = NoRead THEN <<Text>>
    ELSE
    LET shape == ShapeOf(kind)
        a == AddrField(AddrOf(kind))
        v == ResultField(ByteAt(i))
        d == AddrField(Decoy(AddrOf(kind)))
        w == ResultField((ByteAt(i) + 128) % 256)
    IN  CASE shape = 0 -> <<Text, Marker, Text, a, Text, v>>
          \* two pairs of fields after the marker
          [] shape = 1 -> <<Text, Marker, d, w, Text, a, v>>
          \* an address field after the last result field
          [] shape = 2 -> <<Marker, a, v, d>>
          \* two result fields after the address field
          [] shape = 3 -> <<Marker, a, w, v>>
          \* fields before the marker, and a result field before the address
          [] shape = 4 -> <<d, w, Marker, w, a, v, Text>>
          \* the marker twice, an address field after each
          [] shape = 5 -> <<Marker, d, Marker, a, v>>
          \* no marker
          [] shape = 6 -> <<Text, a, v>>
          \* no result field after the address field
          [] shape = 7 -> <<Marker, v, a>>
          \* no field after the marker
          [] shape = 8 -> <<a, v, Marker>>

\* the logs of the model: at most MaxSegs segments
LogSegs == UNION {[1..n -> SegmentNames] : n \in 0..MaxSegs}

\* len(log_data.splitlines()), for the segments the emulator wrote
NumLines == Len(Flatten(log_segs))

\* log_data.splitlines()[i - 1]
Line(i) == LineOf(Flatten(log_segs)[i], i)

----------------------------------------------------------------------------
(* collect_wave_dumps *)

\* the function's locals, with the history of where each byte came from
State(d, c, e, cs, ds) ==
    [dumps |-> d, current |-> c, expected_addr |-> e,
     current_src |-> cs, dump_src |-> ds]

InitState == State(<<>>, <<>>, WAVE_ADDR_START, <<>>, <<>>)

\* InWindow without the lower bound
InWindowUpTo(addr) == addr <= WAVE_ADDR_END

\* line 84: the address is one of wave RAM
InWindow(addr) == WAVE_ADDR_START <= addr /\ addr <= WAVE_ADDR_END

\* Restart left out: lines 88-92 missing
RestartSkipped(st, addr) == st

\* Restart without the test of line 89: whatever is held is emitted
RestartEmitsPartial(st, addr) ==
    IF addr = WAVE_ADDR_START /\ st.current # <<>>
    THEN State(Append(st.dumps, st.current), <<>>, WAVE_ADDR_START, <<>>,
               Append(st.dump_src, st.current_src))
    ELSE st

\* lines 88-92: a read of WAVE_ADDR_START while bytes are held
Restart(st, addr) ==
    IF addr = WAVE_ADDR_START /\ st.current # <<>>
    THEN LET emit == Len(st.current) = 16
         IN  State(IF emit THEN Append(st.dumps, st.current) ELSE st.dumps,
                   <<>>, WAVE_ADDR_START, <<>>,
                   IF emit THEN Append(st.dump_src, st.current_src)
                           ELSE st.dump_src)
    ELSE st

\* Mismatch without the comparison: no read breaks a run
MismatchNever(st, addr) == FALSE

\* line 94: the address is not the expected one
Mismatch(st, addr) == addr # st.expected_addr

\* Reset without line 96: the expected address stays where it was
ResetKeepsExpected(st) ==
    State(st.dumps, <<>>, st.expected_addr, <<>>, st.dump_src)

\* lines 95-96: the run is broken
Reset(st) == State(st.dumps, <<>>, WAVE_ADDR_START, <<>>, st.dump_src)

\* Accept without line 101: the expected address does not advance
AcceptNoAdvance(st, value, i) ==
    State(st.dumps, Append(st.current, value), st.expected_addr,
          Append(st.current_src, i), st.dump_src)

\* lines 100-103: take the byte and advance, wrapping at the window's end
Accept(st, value, i) ==
    LET next == st.expected_addr + 1
    IN  State(st.dumps, Append(st.current, value),
              IF next > WAVE_ADDR_END THEN WAVE_ADDR_START ELSE next,
              Append(st.current_src, i), st.dump_src)

\* Emit with an assignment in place of the append of line 106: the new dump
\* replaces the list
EmitOverwrites(st) ==
    IF Len(st.current) = 16
    THEN State(<<st.current>>, <<>>, WAVE_ADDR_START, <<>>,
               <<st.current_src>>)
    ELSE st

\* Emit without line 107: the emitted bytes stay in current
EmitKeepsCurrent(st) ==
    IF Len(st.current) = 16
    THEN State(Append(st.dumps, st.current), st.current, WAVE_ADDR_START,
               st.current_src, Append(st.dump_src, st.current_src))
    ELSE st

\* lines 105-108: a full window is a dump
Emit(st) ==
    IF Len(st.current) = 16
    THEN State(Append(st.dumps, st.current), <<>>, WAVE_ADDR_START, <<>>,
               Append(st.dump_src, st.current_src))
    ELSE st

\* int(s, 16) raises ValueError: s is empty or has a character that is no
\* hex digit
IntRaises(h) == h = <<>> \/ \E j \in 1..Len(h) : h[j] \notin 0..15

\* bytes(c) raises ValueError: an element of c is not in range(256)
BytesRaises(c) == \E j \in 1..Len(c) : c[j] \notin 0..255

\* LoopBody with the value read from group 1, the address, as a slip of the
\* group number at line 86 would have it
LoopBodyValueFromAddr(st, line, i) ==
    LET match == WaveReadSearch(line)
    IN  IF ~match.matched THEN st
        ELSE LET addr == HexToInt(match.addr)
             IN  IF ~InWindow(addr) THEN st
                 ELSE LET value == HexToInt(match.addr)
                          s1    == Restart(st, addr)
                      IN  IF Mismatch(s1, addr)
                          THEN LET s2 == Reset(s1)
                               IN  IF Mismatch(s2, addr) THEN s2
                                   ELSE Emit(Accept(s2, value, i))
                          ELSE Emit(Accept(s1, value, i))

\* lines 80-108: the body of the loop, for line number i of the log
LoopBody(st, line, i) ==
    LET match == WaveReadSearch(line)
    IN  IF ~match.matched THEN st
        ELSE LET addr == HexToInt(match.addr)
             IN  IF ~InWindow(addr) THEN st
                 ELSE LET value == HexToInt(match.result)
                          s1    == Restart(st, addr)
                      IN  IF Mismatch(s1, addr)
                          THEN LET s2 == Reset(s1)
                               IN  IF Mismatch(s2, addr) THEN s2
                                   ELSE Emit(Accept(s2, value, i))
                          ELSE Emit(Accept(s1, value, i))

\* Final without the length test: whatever is left is emitted
FinalEmitsPartial(st) ==
    IF st.current # <<>>
    THEN State(Append(st.dumps, st.current), st.current, st.expected_addr,
               st.current_src, Append(st.dump_src, st.current_src))
    ELSE st

\* lines 110-111: after the loop
Final(st) ==
    IF st.current # <<>> /\ Len(st.current) = 16
    THEN State(Append(st.dumps, st.current), st.current, st.expected_addr,
               st.current_src, Append(st.dump_src, st.current_src))
    ELSE st

RECURSIVE RunLines(_, _)
\* lines 79-108: the loop over the lines of the log with the numbers idxs
\* (the test of expected_addr reads the locals, so that TLC computes them
\* line by line instead of building the whole computation up first)
RunLines(st, idxs) ==
    IF idxs = <<>> \/ ~InWindow(st.expected_addr) THEN st
    ELSE RunLines(LoopBody(st, Line(Head(idxs)), Head(idxs)), Tail(idxs))

\* lines 74-113: the dumps the function returns for the lines idxs of the log
collect_wave_dumps(idxs) == Final(RunLines(InitState, idxs)).dumps

Locals == State(dumps, current, expected_addr, current_src, dump_src)

SetLocals(st) ==
    /\ dumps' = st.dumps
    /\ current' = st.current
    /\ expected_addr' = st.expected_addr
    /\ current_src' = st.current_src
    /\ dump_src' = st.dump_src

----------------------------------------------------------------------------
(* The checksum reporter *)

RECURSIVE JoinSeparated(_)
\* Join with a separator: b" ".join(ds)
JoinSeparated(ds) ==
    IF ds = <<>> THEN <<>>
    ELSE IF Tail(ds) = <<>> THEN Head(ds)
    ELSE Head(ds) \o <<32>> \o JoinSeparated(Tail(ds))

RECURSIVE Join(_)
\* b"".join(ds)
Join(ds) == IF ds = <<>> THEN <<>> ELSE Head(ds) \o Join(Tail(ds))

\* a 32-bit word is a pair <<hi, lo>> of its two 16-bit halves

\* the exclusive or of two bits
Xor1(a, b) == (a + b) % 2

\* the exclusive or of two 4-bit numbers
Xor4(a, b) ==
    Xor1(a % 2, b % 2)
    + 2 * Xor1((a \div 2) % 2, (b \div 2) % 2)
    + 4 * Xor1((a \div 4) % 2, (b \div 4) % 2)
    + 8 * Xor1((a \div 8) % 2, (b \div 8) % 2)

\* the exclusive or of two 16-bit numbers
Xor16(a, b) ==
    Xor4(a % 16, b % 16)
    + 16 * Xor4((a \div 16) % 16, (b \div 16) % 16)
    + 256 * Xor4((a \div 256) % 16, (b \div 256) % 16)
    + 4096 * Xor4((a \div 4096) % 16, (b \div 4096) % 16)

Xor(x, y) == <<Xor16(x[1], y[1]), Xor16(x[2], y[2])>>

ShiftRight(x) == <<x[1] \div 2, (x[2] \div 2) + 32768 * (x[1] % 2)>>

\* the reflected CRC-32 polynomial 0xEDB88320
Poly == <<60856, 33568>>

AllOnes == <<65535, 65535>>

\* one shift of the register
CrcBit(x) ==
    IF x[2] % 2 = 1 THEN Xor(ShiftRight(x), Poly) ELSE ShiftRight(x)

\* a byte folded into the register: eight shifts
CrcByte(x, byte) ==
    LET x0 == Xor(x, <<0, byte>>)
    IN  CrcBit(CrcBit(CrcBit(CrcBit(CrcBit(CrcBit(CrcBit(CrcBit(x0))))))))

\* a register holds two 16-bit halves
IsWord(x) == x[1] \in 0..65535 /\ x[2] \in 0..65535

RECURSIVE CrcBytes(_, _)
\* the register x after the bytes of data, folded in from left to right
\* (IsWord reads the register, so that TLC computes it byte by byte
\* instead of building the whole computation up before it starts)
CrcBytes(x, data) ==
    IF data = <<>> \/ ~IsWord(x) THEN x
    ELSE CrcBytes(CrcByte(x, Head(data)), Tail(data))

\* zlib.crc32(data) & 0xFFFFFFFF
Crc32(data) == Xor(CrcBytes(AllOnes, data), AllOnes)

\* f"{crc:08X}": the eight hex digits of a word, most significant first
WordToHex(x) == IntToHex(x[1], 4) \o IntToHex(x[2], 4)

\* format_dump: two hex digits a byte
format_dump(data) == [i \in 1..Len(data) |-> IntToHex(data[i], 2)]

\* lines 144-153: what main prints for a non-empty list of dumps
Report(ds) ==
    LET stream     == Join(ds)
        stream_crc == Crc32(stream)
    IN  <<<<"captured", Len(ds), Len(stream)>>>>
        \o [i \in 1..Len(ds) |-> <<"dump", format_dump(ds[i])>>]
        \o <<<<"crc32", WordToHex(stream_crc), Len(stream)>>>>

----------------------------------------------------------------------------
(* The state machine *)

Init ==
    /\ pc = "build"
    /\ log_segs = <<>>
    /\ pos = 1
    /\ dumps = <<>>
    /\ current = <<>>
    /\ expected_addr = WAVE_ADDR_START
    /\ current_src = <<>>
    /\ dump_src = <<>>
    /\ stdout = <<>>
    /\ stderr = <<>>
    /\ exit_status = 0 - 1

\* one iteration of the for loop
CollectLine ==
    /\ pc = "collect"
    /\ pos <= NumLines
    /\ SetLocals(LoopBody(Locals, Line(pos), pos))
    /\ pos' = pos + 1
    /\ UNCHANGED <<pc, log_segs, stdout, stderr, exit_status>>

\* the loop is over: the last check, and the return to main
CollectReturn ==
    /\ pc = "collect"
    /\ pos > NumLines
    /\ SetLocals(Final(Locals))
    /\ pc' = "main_check"
    /\ UNCHANGED <<log_segs, pos, stdout, stderr, exit_status>>

\* lines 123-131: make build, which the model lets succeed or fail
MakeBuild ==
    /\ pc = "build"
    /\ \E ok \in BOOLEAN :
          IF ok
          THEN /\ pc' = "run_emulator"
               /\ stderr' = Append(stderr, <<"rebuilding">>)
               /\ UNCHANGED exit_status
          ELSE /\ pc' = "exit"
               /\ stderr' = stderr \o <<<<"rebuilding">>, <<"build failed">>>>
               /\ exit_status' = 1
    /\ UNCHANGED <<log_segs, pos, dumps, current, expected_addr, current_src,
                   dump_src, stdout>>

\* lines 133 and 58-71: the emulator writes its log and exits with status 0
RunEmulator ==
    /\ pc = "run_emulator"
    /\ log_segs' \in LogSegs
    /\ pc' = "collect"
    /\ UNCHANGED <<pos, dumps, current, expected_addr, current_src, dump_src,
                   stdout, stderr, exit_status>>

\* lines 59-62, 67-70 and 161-163: a missing file or a failed emulator raises,
\* and the handler of the script prints the error and exits with status 1
RunEmulatorRaises ==
    /\ pc = "run_emulator"
    /\ pc' = "exit"
    /\ stderr' = Append(stderr, <<"exception">>)
    /\ exit_status' = 1
    /\ UNCHANGED <<log_segs, pos, dumps, current, expected_addr, current_src,
                   dump_src, stdout>>

\* lines 140-142: nothing was reconstructed
MainNoDumps ==
    /\ pc = "main_check"
    /\ dumps = <<>>
    /\ stderr' = Append(stderr, <<"no dumps">>)
    /\ exit_status' = 1
    /\ pc' = "exit"
    /\ UNCHANGED <<log_segs, pos, dumps, current, expected_addr, current_src,
                   dump_src, stdout>>

\* MainReport without the test of line 140: the report is printed for an
\* empty list too
MainReportAlways ==
    /\ pc = "main_check"
    /\ stdout' = stdout \o Report(dumps)
    /\ exit_status' = 0
    /\ pc' = "exit"
    /\ UNCHANGED <<log_segs, pos, dumps, current, expected_addr, current_src,
                   dump_src, stderr>>

\* lines 144-153: the report; main returns and the process exits with status 0
MainReport ==
    /\ pc = "main_check"
    /\ dumps # <<>>
    /\ stdout' = stdout \o Report(dumps)
    /\ exit_status' = 0
    /\ pc' = "exit"
    /\ UNCHANGED <<log_segs, pos, dumps, current, expected_addr, current_src,
                   dump_src, stderr>>

Next ==
    \/ MakeBuild
    \/ RunEmulator
    \/ RunEmulatorRaises
    \/ CollectLine
    \/ CollectReturn
    \/ MainNoDumps
    \/ MainReport

Spec == Init /\ [][Next]_vars

----------------------------------------------------------------------------
(* The read events of the log, as the properties below speak of them *)

WINDOW_SIZE == WAVE_ADDR_END - WAVE_ADDR_START + 1

\* the address window [START, END]
AddressWindow == WAVE_ADDR_START..WAVE_ADDR_END

\* what line i of the log reports: whether it is a read event inside the
\* address window (win), and the address and the value read
Event(i) ==
    LET m == WaveReadSearch(Line(i))
        a == HexToInt(m.addr)
    IN  [win |-> m.matched /\ a \in AddressWindow, addr |-> a,
         value |-> HexToInt(m.result)]

\* line i is a read event inside the address window
InWindowEvent(i) == Event(i).win

\* line i is a read event of address a, a an address of the window
ReadsAddr(i, a) == LET ev == Event(i) IN ev.win /\ ev.addr = a

\* line i is a read event outside the address window
OutOfWindowEvent(i) ==
    LET m == WaveReadSearch(Line(i))
    IN  m.matched /\ HexToInt(m.addr) \notin AddressWindow

\* the lines the loop has gone through
Processed == 1..(pos - 1)

----------------------------------------------------------------------------
(* C1: every dump in the list has length exactly WINDOW_SIZE = 16, after   *)
(* every processed line as well as at the end.                             *)
C1_DumpLength ==
    /\ WINDOW_SIZE = 16
    /\ \A k \in 1..Len(dumps) : Len(dumps[k]) = WINDOW_SIZE

\* a dump is held while lines remain, and a partial run was restarted
C1_Witness ==
    /\ pc = "collect"
    /\ pos <= NumLines
    /\ Len(dumps) >= 1
    /\ \E i \in Processed, j \in Processed :
          /\ i < j
          /\ j - i < 16
          /\ ReadsAddr(i, WAVE_ADDR_START)
          /\ ReadsAddr(j, WAVE_ADDR_START)
          /\ \A m \in (i + 1)..(j - 1) : InWindowEvent(m)

(* C2: every dump is built from 16 events that follow one another in the   *)
(* stream of in-window events and whose addresses are START, ..., END in   *)
(* that order: byte i of the dump is the value of the event with address   *)
(* START + i.                                                              *)
C2_DumpFromContiguousRun ==
    /\ Len(dump_src) = Len(dumps)
    /\ \A k \in 1..Len(dumps) :
          /\ Len(dumps[k]) = 16 /\ Len(dump_src[k]) = 16
          /\ \A i \in 1..16 :
                LET src == dump_src[k][i]
                    ev  == Event(src)
                IN  /\ src \in Processed
                    /\ ev.win
                    /\ ev.addr = WAVE_ADDR_START + (i - 1)
                    /\ ev.value = dumps[k][i]
          /\ \A i \in 1..15 :
                /\ dump_src[k][i] < dump_src[k][i + 1]
                /\ \A m \in (dump_src[k][i] + 1)..(dump_src[k][i + 1] - 1) :
                      ~InWindowEvent(m)

\* a dump was emitted after a broken run, and its events are not adjacent
\* lines of the log
C2_Witness ==
    /\ Len(dumps) >= 1
    /\ \E m \in 1..(dump_src[1][1] - 1) :
          InWindowEvent(m) /\ ~ReadsAddr(m, WAVE_ADDR_START)
    /\ dump_src[1][16] - dump_src[1][1] > 15

WithoutOutOfWindow ==
    SelectSeq([i \in 1..NumLines |-> i], LAMBDA i : ~OutOfWindowEvent(i))

(* C3: events outside [START, END] never influence the output: the dumps   *)
(* returned are those returned for the same log with every out-of-window   *)
(* event removed, wherever these events stand, and a step of the loop on   *)
(* an out-of-window event leaves the accumulator, the expected address and *)
(* the dumps as they were.                                                 *)
C3_OutOfWindowIgnored ==
    /\ [](pc = "main_check" => dumps = collect_wave_dumps(WithoutOutOfWindow))
    /\ [][(pc = "collect" /\ pos <= NumLines /\ OutOfWindowEvent(pos))
            => UNCHANGED <<dumps, current, expected_addr>>]_vars

\* the function has returned a dump whose run has an out-of-window event
\* in its middle
C3_Witness ==
    /\ pc = "main_check"
    /\ Len(dumps) >= 1
    /\ \E m \in (dump_src[1][1] + 1)..(dump_src[1][16] - 1) :
          OutOfWindowEvent(m)

CleanRun ==
    /\ NumLines >= 16
    /\ NumLines % 16 = 0
    /\ \A i \in 1..NumLines : ReadsAddr(i, WAVE_ADDR_START + ((i - 1) % 16))

(* C4: a log of n >= 1 consecutive full cycles of the addresses START..END *)
(* and nothing else yields exactly n dumps, the k-th dump being the 16     *)
(* values of the k-th cycle in input order.                                *)
C4_CleanRun ==
    (pc = "main_check" /\ CleanRun) =>
        /\ Len(dumps) = NumLines \div 16
        /\ \A k \in 1..Len(dumps) :
              dumps[k] = [i \in 1..16 |-> Event(16 * (k - 1) + i).value]

\* three cycles were read and the function has returned
C4_Witness == pc = "main_check" /\ CleanRun /\ NumLines = 48

InWindowLines ==
    SelectSeq([i \in 1..NumLines |-> i], LAMBDA i : InWindowEvent(i))

\* the last n elements of the sequence w
LastOf(w, n) == SubSeq(w, Len(w) - n + 1, Len(w))

\* the lines run are a complete run: reads of START, ..., END in this order
CompleteRun(run) ==
    /\ Len(run) = 16
    /\ \A j \in 1..16 : Event(run[j]).addr = WAVE_ADDR_START + (j - 1)

(* C5: when the log ends right after a complete 16-byte run, no START      *)
(* event following it, that run is in the output exactly once; a log whose *)
(* in-window events are one such run yields exactly one dump.              *)
C5_TrailingRunOnce ==
    pc = "main_check" =>
        LET w   == InWindowLines
            run == LastOf(w, 16)
        IN  (Len(w) >= 16 /\ CompleteRun(run)) =>
                /\ Cardinality({k \in 1..Len(dumps) : dump_src[k] = run}) = 1
                /\ dump_src[Len(dumps)] = run
                /\ dumps[Len(dumps)] = [j \in 1..16 |-> Event(run[j]).value]
                /\ Len(w) = 16 => Len(dumps) = 1

\* the in-window events of the log are one complete run, and the function
\* has returned its dump
C5_Witness ==
    /\ pc = "main_check"
    /\ Len(InWindowLines) = 16
    /\ CompleteRun(InWindowLines)
    /\ NumLines > 16
    /\ Len(dumps) = 1

(* C6: when the log ends while the accumulator holds 1 to 15 bytes, no     *)
(* dump is emitted for that run: the bytes left over are those of the last *)
(* in-window events, every dump returned was complete before the first of  *)
(* them was read, and none of them is in a dump.                           *)
C6_TruncatedRunDropped ==
    (pc = "main_check" /\ Len(current) \in 1..15) =>
        /\ Len(current_src) = Len(current)
        /\ current_src = LastOf(InWindowLines, Len(current))
        /\ \A j \in 1..Len(current) : current[j] = Event(current_src[j]).value
        /\ Len(dump_src) = Len(dumps)
        /\ \A k \in 1..Len(dumps) :
              /\ Len(dumps[k]) = 16
              /\ \A i \in 1..Len(dump_src[k]) : dump_src[k][i] < current_src[1]

\* a dump, then a run the end of the log cuts short
C6_Witness ==
    /\ pc = "main_check"
    /\ Len(current) \in 1..15
    /\ Len(dumps) >= 1

RestartStep ==
    /\ pc = "collect"
    /\ pos <= NumLines
    /\ Len(current) \in 1..15
    /\ ReadsAddr(pos, WAVE_ADDR_START)

(* C7: when a read of START arrives while the accumulator holds 1 to 15    *)
(* bytes, these bytes are dropped and no dump is emitted; a new run begins *)
(* with this event: afterwards the accumulator holds its value alone and   *)
(* the expected address is START + 1.                                      *)
C7_RestartBeforeCompletion ==
    [][RestartStep =>
          /\ dumps' = dumps
          /\ current' = <<Event(pos).value>>
          /\ current_src' = <<pos>>
          /\ expected_addr' = WAVE_ADDR_START + 1]_vars

\* the 8 bytes of a run were held when the last line, a read of START, was
\* processed, and a new run of one byte is held now
C7_Witness ==
    /\ pc = "collect"
    /\ pos > 9
    /\ \A j \in 0..7 : ReadsAddr(pos - 9 + j, WAVE_ADDR_START + j)
    /\ ReadsAddr(pos - 1, WAVE_ADDR_START)
    /\ current = <<Event(pos - 1).value>>
    /\ expected_addr = WAVE_ADDR_START + 1

GapStep ==
    /\ pc = "collect"
    /\ pos <= NumLines
    /\ InWindowEvent(pos)
    /\ Event(pos).addr # expected_addr
    /\ Event(pos).addr # WAVE_ADDR_START

(* C8: when an in-window event arrives whose address is neither the        *)
(* expected one nor START, the accumulator is emptied, the expected        *)
(* address is set to START, the event is dropped and no dump is emitted;   *)
(* the in-window events that follow are dropped likewise as long as their  *)
(* address is not START: a run begins with a read of START only.           *)
C8_OutOfOrderGap ==
    /\ [][GapStep =>
             /\ current' = <<>>
             /\ current_src' = <<>>
             /\ expected_addr' = WAVE_ADDR_START
             /\ dumps' = dumps]_vars
    /\ [](current = <<>> => expected_addr = WAVE_ADDR_START)
    /\ [](current # <<>> => ReadsAddr(current_src[1], WAVE_ADDR_START))

\* a run of 8 bytes was broken by the line before the last, and the last
\* line, an in-window event too, was dropped as well
C8_Witness ==
    /\ pc = "collect"
    /\ pos > 10
    /\ \A j \in 0..7 : ReadsAddr(pos - 10 + j, WAVE_ADDR_START + j)
    /\ InWindowEvent(pos - 2) /\ Event(pos - 2).addr = WAVE_ADDR_START + 7
    /\ InWindowEvent(pos - 1) /\ Event(pos - 1).addr # WAVE_ADDR_START
    /\ current = <<>>
    /\ expected_addr = WAVE_ADDR_START

SourceBytes ==
    {<<k, i>> : k \in 1..Len(dump_src), i \in 1..16}

(* C9: no two dumps share a source byte: an in-window event gives its      *)
(* value to at most one dump, and to at most one position of it.           *)
C9_NoSharedSourceByte ==
    /\ Len(dump_src) = Len(dumps)
    /\ \A k \in 1..Len(dumps) :
          Len(dump_src[k]) = Len(dumps[k]) /\ Len(dumps[k]) = 16
    /\ Cardinality({dump_src[b[1]][b[2]] : b \in SourceBytes})
          = Cardinality(SourceBytes)

\* three dumps, the second begun by the read of START next after the first
C9_Witness ==
    /\ Len(dumps) = 3
    /\ dump_src[2][1] = dump_src[1][16] + 1

HasChecksum == \E i \in 1..Len(stdout) : stdout[i][1] = "crc32"

(* C10: when the reconstruction yields no dump, main reports it, exits     *)
(* with status 1 and neither computes nor prints a checksum; a checksum is *)
(* printed only when at least one dump was reconstructed.                  *)
C10_NoDumpsIsFailure ==
    /\ [][(pc = "main_check" /\ dumps = <<>>) =>
             /\ pc' = "exit"
             /\ exit_status' = 1
             /\ stderr' = Append(stderr, <<"no dumps">>)
             /\ stdout' = <<>>]_vars
    /\ [](HasChecksum => (dumps # <<>> /\ exit_status = 0))
    /\ [](dumps = <<>> => stdout = <<>>)

\* a log of lines none of which is an in-window event ended in the failure
C10_Witness ==
    /\ pc = "exit"
    /\ NumLines >= 3
    /\ pos > NumLines
    /\ \E i \in 1..NumLines : OutOfWindowEvent(i)
    /\ \A i \in 1..NumLines : ~InWindowEvent(i)
    /\ dumps = <<>>
    /\ exit_status = 1
    /\ stdout = <<>>
    /\ stderr[Len(stderr)] = <<"no dumps">>

\* the stream cut into consecutive chunks of WINDOW_SIZE bytes
Slices(stream) ==
    [k \in 1..(Len(stream) \div WINDOW_SIZE) |->
        SubSeq(stream, WINDOW_SIZE * (k - 1) + 1, WINDOW_SIZE * k)]

(* C11: the concatenation of the emitted dumps has length 16 * (number of  *)
(* dumps), and cutting it into consecutive 16-byte chunks gives the dumps  *)
(* back, in order; the report main prints states this length, twice, and   *)
(* prints the chunks one a line.                                           *)
C11_StreamRoundTrip ==
    /\ pc = "main_check" =>
          LET stream == Join(dumps)
          IN  /\ Len(stream) = 16 * Len(dumps)
              /\ Slices(stream) = dumps
    /\ (pc = "exit" /\ stdout # <<>>) =>
          /\ Len(stdout) = Len(dumps) + 2
          /\ stdout[1] = <<"captured", Len(dumps), 16 * Len(dumps)>>
          /\ stdout[Len(stdout)][3] = 16 * Len(dumps)
          /\ \A k \in 1..Len(dumps) :
                stdout[k + 1] = <<"dump", format_dump(Slices(Join(dumps))[k])>>

\* the report of three dumps was printed
C11_Witness ==
    /\ pc = "exit"
    /\ Len(dumps) = 3
    /\ Len(stdout) = 5
    /\ stdout[1] = <<"captured", 3, 48>>

\* on line, an address field at a and a result field at r that follows it,
\* both after the marker
IsPair(line, a, r) ==
    /\ a \in Positions(line, "addr")
    /\ r \in Positions(line, "result")
    /\ a < r
    /\ \E m \in Positions(line, "marker") : m < a

\* the last pair: no pair has its address field or its result field further
\* right
LastPair(line, a, r) ==
    /\ IsPair(line, a, r)
    /\ \A a2 \in 1..Len(line), r2 \in 1..Len(line) :
          IsPair(line, a2, r2) => (a2 <= a /\ r2 <= r)

\* the first pair: the first address field after the marker and the first
\* result field following it
FirstPair(line, a, r) ==
    /\ IsPair(line, a, r)
    /\ \A a2 \in Positions(line, "addr") :
          (\E m \in Positions(line, "marker") : m < a2) => a <= a2
    /\ \A r2 \in Positions(line, "result") : r2 > a => r <= r2

\* the step of the loop on the next line takes at most one read event from
\* it, the one whose fields are the pair P picks on the line: without such a
\* pair, or with an address outside the window, nothing changes; with the
\* expected address or START the pair's value is the byte taken; with
\* another address of the window the run is broken
StepExtracts(P(_, _, _)) ==
    (pc = "collect" /\ pos <= NumLines) =>
        LET line  == Line(pos)
            pairs == {p \in (1..Len(line)) \X (1..Len(line)) :
                         P(line, p[1], p[2])}
        IN  /\ Len(dumps') \in {Len(dumps), Len(dumps) + 1}
            /\ Len(current') <= Len(current) + 1
            /\ Cardinality(pairs) <= 1
            /\ pairs = {} => UNCHANGED <<dumps, current, expected_addr>>
            /\ \A p \in pairs :
                  LET addr  == HexToInt(line[p[1]].hex)
                      value == HexToInt(line[p[2]].hex)
                  IN  IF addr \notin AddressWindow
                      THEN UNCHANGED <<dumps, current, expected_addr>>
                      ELSE IF addr = expected_addr \/ addr = WAVE_ADDR_START
                      THEN \/ /\ dumps' = dumps
                              /\ current' # <<>>
                              /\ current'[Len(current')] = value
                           \/ /\ Len(dumps') = Len(dumps) + 1
                              /\ current' = <<>>
                              /\ dumps'[Len(dumps')][16] = value
                      ELSE current' = <<>> /\ dumps' = dumps

(* C12, as amended: the matcher yields at most one read event per line,    *)
(* and when a line has several address and result fields after the marker  *)
(* it extracts the last pair: the last address field that has a result     *)
(* field after it, and the last result field of the line.                  *)
C12_ExtractsLastPair == [][StepExtracts(LastPair)]_vars

(* C12, as stated: the matcher yields at most one read event per line, and *)
(* when a line has several address and result fields after the marker it   *)
(* extracts the first pair: the first address field and the first result   *)
(* field following it.                                                     *)
C12_ExtractsFirstPair == [][StepExtracts(FirstPair)]_vars

\* a dump was built from the lines of a cycle among which are lines with
\* two address fields and lines with two result fields after the marker
C12_Witness ==
    /\ Len(dumps) >= 1
    /\ \E i \in 1..16 :
          LET line == Line(dump_src[1][i])
          IN  Cardinality({a \in Positions(line, "addr") :
                              a > Min(Positions(line, "marker"))}) >= 2
    /\ \E i \in 1..16 :
          LET line == Line(dump_src[1][i])
          IN  Cardinality({r \in Positions(line, "result") :
                              r > Min(Positions(line, "marker"))}) >= 2

\* the body of the loop raises on line: a group of the match is no
\* hexadecimal number (lines 83 and 86), or the bytes held with the new
\* value are no bytes (lines 90 and 106)
LoopRaises(st, line) ==
    LET match == WaveReadSearch(line)
    IN  /\ match.matched
        /\ \/ IntRaises(match.addr)
           \/ /\ InWindow(HexToInt(match.addr))
              /\ \/ IntRaises(match.result)
                 \/ BytesRaises(Append(st.current, HexToInt(match.result)))

\* a log with a line that is no read, a read out of the window and a run
\* that a read of START restarts
MixedLog ==
    /\ \E i \in 1..NumLines : ~InWindowEvent(i) /\ ~OutOfWindowEvent(i)
    /\ \E i \in 1..NumLines : OutOfWindowEvent(i)
    /\ \E i \in 2..NumLines :
          /\ ReadsAddr(i, WAVE_ADDR_START)
          /\ InWindowEvent(i - 1)
          /\ ~ReadsAddr(i - 1, WAVE_ADDR_END)

(* C13: collect_wave_dumps never fails: whatever the lines of the log, no  *)
(* step of the loop raises (the groups of a match are hexadecimal numbers, *)
(* the values held are bytes); every step of the loop consumes exactly one *)
(* line, so that the lines left to read, NumLines + 1 - pos, decrease with *)
(* every step and the loop ends; after the last line the one step there is *)
(* returns the list of dumps, possibly empty, to main.                     *)
C13_NeverFails ==
    /\ [](pc = "collect" =>
             /\ pos \in 1..(NumLines + 1)
             /\ exit_status = 0 - 1
             /\ ~BytesRaises(current)
             /\ pos <= NumLines => ~LoopRaises(Locals, Line(pos)))
    /\ [][pc = "collect" =>
             \/ pos <= NumLines /\ pos' = pos + 1 /\ pc' = "collect"
             \/ /\ pos = NumLines + 1
                /\ pc' = "main_check"
                /\ exit_status' = 0 - 1
                /\ \A k \in 1..Len(dumps') : ~BytesRaises(dumps'[k])]_vars

\* the function has returned an empty list for a log with lines that are no
\* read, reads out of the window, a restarted run and a run cut short
C13_Witness ==
    /\ pc = "main_check"
    /\ pos = NumLines + 1
    /\ MixedLog
    /\ dumps = <<>>
    /\ Len(current) \in 1..15

\* the lines among the first n that are in-window events, in input order
EventsUpTo(n) ==
    SelectSeq([i \in 1..n |-> i], LAMBDA i : InWindowEvent(i))

\* the places of the stream w of in-window events where a window begins: 16
\* events in a row with the addresses START, ..., END in this order
WindowStarts(w) ==
    {j \in 1..(Len(w) - 15) :
        /\ Event(w[j]).addr = WAVE_ADDR_START
        /\ CompleteRun(SubSeq(w, j, j + 15))}

\* the values of the windows of the stream w, in input order
WindowsOf(w) ==
    LET ws     == WindowStarts(w)
        starts == SelectSeq([j \in 1..Len(w) |-> j], LAMBDA j : j \in ws)
    IN  [k \in 1..Len(starts) |->
            [i \in 1..16 |-> Event(w[starts[k] + i - 1]).value]]

(* C14: whatever was read before, when the last 16 in-window events up to  *)
(* and including the line being processed have the addresses START, ...,   *)
(* END in this order, the step appends exactly one dump, holding their 16  *)
(* values; no other step appends a dump; and the list returned is exactly  *)
(* the sequence of such windows of the in-window stream, in input order.   *)
C14_Resynchronisation ==
    /\ [][(pc = "collect" /\ pos <= NumLines) =>
             IF ReadsAddr(pos, WAVE_ADDR_END)
             THEN LET w   == EventsUpTo(pos)
                      run == LastOf(w, 16)
                  IN  IF Len(w) >= 16 /\ CompleteRun(run)
                      THEN dumps' = Append(dumps,
                                       [i \in 1..16 |-> Event(run[i]).value])
                      ELSE dumps' = dumps
             ELSE dumps' = dumps]_vars
    /\ [](pc = "main_check" => dumps = WindowsOf(InWindowLines))

\* a dump was appended by the last step, for a run that began with a read
\* of START restarting a partial run, itself begun after a dropped event
C14_Witness ==
    /\ pc = "collect"
    /\ Len(dumps) = 1
    /\ dump_src[1][16] = pos - 1
    /\ dump_src[1][1] > 2
    /\ InWindowEvent(1) /\ ~ReadsAddr(1, WAVE_ADDR_START)
    /\ InWindowEvent(dump_src[1][1] - 1)
    /\ ~ReadsAddr(dump_src[1][1] - 1, WAVE_ADDR_END)

\* the step processes a line whose read gives the accumulator its 16th byte
SixteenthByteStep ==
    /\ pc = "collect"
    /\ pos <= NumLines
    /\ Len(current) = 15
    /\ ReadsAddr(pos, expected_addr)

(* C15: the list of dumps is append-only and ordered by completion: a step *)
(* leaves it unchanged or appends one dump at its end, the dumps already   *)
(* there staying as they are and where they are; a dump is appended        *)
(* exactly by the step in which its 16th byte is accepted, and it is the   *)
(* accumulator with this byte; the dumps stand in the order in which their *)
(* 16th bytes were read.                                                   *)
C15_AppendOnly ==
    /\ [][/\ \/ dumps' = dumps
             \/ /\ Len(dumps') = Len(dumps) + 1
                /\ SubSeq(dumps', 1, Len(dumps)) = dumps
          /\ (dumps' # dumps) <=> SixteenthByteStep
          /\ SixteenthByteStep =>
                dumps' = Append(dumps, Append(current, Event(pos).value))]_vars
    /\ [](\A k \in 1..(Len(dump_src) - 1) :
             dump_src[k][16] < dump_src[k + 1][16])

\* the last step appended a third dump to the list
C15_Witness ==
    /\ pc = "collect"
    /\ Len(dumps) = 3
    /\ dump_src[3][16] = pos - 1
    /\ dumps[1] # dumps[2]

(* C16: between events, that is before the first line and after every     *)
(* processed line, the accumulator holds 0 to 15 bytes and expected_addr   *)
(* is START + len(accumulator), hence within [START, END]: the accumulator *)
(* is never seen with 16 bytes and the expected address is never END + 1.  *)
(* The same holds once the function has returned.                          *)
C16_StateInvariant ==
    /\ Len(current) \in 0..15
    /\ expected_addr = WAVE_ADDR_START + Len(current)
    /\ WAVE_ADDR_START <= expected_addr
    /\ expected_addr <= WAVE_ADDR_END

\* a dump was emitted, the expected address wrapped to START and 15 bytes of
\* the next run are held: END is expected
C16_Witness ==
    /\ pc = "collect"
    /\ Len(dumps) >= 1
    /\ Len(current) = 15
    /\ expected_addr = WAVE_ADDR_END

\* the test of line 89 holds: a read of START arrives while 16 bytes are held
RestartEmits ==
    /\ pc = "collect"
    /\ pos <= NumLines
    /\ ReadsAddr(pos, WAVE_ADDR_START)
    /\ current # <<>>
    /\ Len(current) = 16

\* the test of line 110 holds: the loop is over and 16 bytes are held
FinalEmits ==
    /\ pc = "collect"
    /\ pos > NumLines
    /\ current # <<>>
    /\ Len(current) = 16

\* lines 88-92 without lines 89-90
RestartNoEmit(st, addr) ==
    IF addr = WAVE_ADDR_START /\ st.current # <<>>
    THEN State(st.dumps, <<>>, WAVE_ADDR_START, <<>>, st.dump_src)
    ELSE st

\* the body of the loop without lines 89-90
LoopBodyNoEmit(st, line, i) ==
    LET match == WaveReadSearch(line)
    IN  IF ~match.matched THEN st
        ELSE LET addr == HexToInt(match.addr)
             IN  IF ~InWindow(addr) THEN st
                 ELSE LET value == HexToInt(match.result)
                          s1    == RestartNoEmit(st, addr)
                      IN  IF Mismatch(s1, addr)
                          THEN LET s2 == Reset(s1)
                               IN  IF Mismatch(s2, addr) THEN s2
                                   ELSE Emit(Accept(s2, value, i))
                          ELSE Emit(Accept(s1, value, i))

RECURSIVE RunLinesNoEmit(_, _)
\* the loop without lines 89-90
RunLinesNoEmit(st, idxs) ==
    IF idxs = <<>> \/ ~InWindow(st.expected_addr) THEN st
    ELSE RunLinesNoEmit(LoopBodyNoEmit(st, Line(Head(idxs)), Head(idxs)),
                        Tail(idxs))

\* what collect_wave_dumps returns without lines 89-90 and 110-111
DumpsOfStep4Only ==
    RunLinesNoEmit(InitState, [i \in 1..NumLines |-> i]).dumps

(* C17: the defensive emissions never fire: no read of START arrives while *)
(* 16 bytes are held (lines 89-90) and the loop never ends with 16 bytes   *)
(* held (lines 110-111); every dump is appended by the rule of lines       *)
(* 105-106, in the step that accepts its 16th byte, and the function       *)
(* without the two paths returns the same list.                            *)
C17_DefensivePathsDead ==
    /\ [](~RestartEmits /\ ~FinalEmits)
    /\ [][dumps' # dumps =>
             /\ pc = "collect"
             /\ pos <= NumLines
             /\ Len(current) = 15
             /\ current' = <<>>
             /\ dumps' = Append(dumps, Append(current, Event(pos).value))]_vars
    /\ [](pc = "main_check" => dumps = DumpsOfStep4Only)

\* a read of START came right after a dump was complete, and the log ended
\* right after another dump was: the function returned the two dumps
C17_Witness ==
    /\ pc = "main_check"
    /\ Len(dumps) = 2
    /\ dump_src[2][1] = dump_src[1][16] + 1
    /\ dump_src[2][16] = NumLines
    /\ current = <<>>

\* the step processes an in-window event that enters the branch of line 94:
\* after lines 88-92 its address is not the expected one
MismatchEntered ==
    /\ pc = "collect"
    /\ pos <= NumLines
    /\ InWindowEvent(pos)
    /\ Mismatch(Restart(Locals, Event(pos).addr), Event(pos).addr)

(* C18: a read of START is never discarded: whatever the state, the step   *)
(* on an in-window event with address START ends with the accumulator      *)
(* holding its value alone, as byte 0 of a run; the branch of the address  *)
(* mismatch (line 94) is entered only by events whose address is not       *)
(* START, and every event entering it is dropped: the test of line 97      *)
(* holds for it.                                                           *)
C18_StartNeverDiscarded ==
    /\ [][(pc = "collect" /\ pos <= NumLines
              /\ ReadsAddr(pos, WAVE_ADDR_START)) =>
             /\ current' = <<Event(pos).value>>
             /\ current_src' = <<pos>>
             /\ expected_addr' = WAVE_ADDR_START + 1
             /\ dumps' = dumps]_vars
    /\ [][MismatchEntered =>
             /\ Event(pos).addr # WAVE_ADDR_START
             /\ Mismatch(Reset(Restart(Locals, Event(pos).addr)),
                         Event(pos).addr)
             /\ current' = <<>>
             /\ expected_addr' = WAVE_ADDR_START
             /\ dumps' = dumps]_vars

\* an event entered the mismatch branch and was dropped, and the read of
\* START on the next line was accepted as byte 0
C18_Witness ==
    /\ pc = "collect"
    /\ pos > 3
    /\ InWindowEvent(pos - 3)
    /\ InWindowEvent(pos - 2)
    /\ Event(pos - 2).addr # WAVE_ADDR_START
    /\ Event(pos - 2).addr # Event(pos - 3).addr + 1
    /\ ReadsAddr(pos - 1, WAVE_ADDR_START)
    /\ current = <<Event(pos - 1).value>>
    /\ current_src = <<pos - 1>>

====
